---- MODULE Spec2Model ----
(***************************************************************************)
(* EnvHolster: round-robin rotation over the environment variables whose   *)
(* names start with a prefix, the cursor kept in memory, in a file or in a *)
(* MongoDB collection (src/src/index.ts).                                  *)
(*                                                                         *)
(* Strings of the program are tuples here (the empty string is << >>), so  *)
(* that startsWith and truthiness are computed, not assumed.  JavaScript   *)
(* values that an index can take (a number, NaN, null, undefined) are      *)
(* records [t, v].                                                         *)
(***************************************************************************)
EXTENDS Integers, Sequences, FiniteSets, TLC

\* ------------------------------------------------------------ bounds
\* Invocations of getNextEnvKey in one behaviour.
MaxCalls == 3
\* Invocations in one behaviour of callers that do not wait for each other.
MaxConcCalls == 2
\* Largest number of variables of one prefix in the configurations.
MaxKeys == 5
\* Largest index found in a store that existed before the process started.
MaxSeed == 5
\* Largest number of entries of process.env where the resolver is checked on
\* every configuration.
MaxEnvLen == 3

\* ------------------------------------------------------------ JavaScript values
Num(i) == [t |-> "num", v |-> i]
JsNaN == [t |-> "nan", v |-> 0]
JsNull == [t |-> "null", v |-> 0]
JsUndef == [t |-> "undef", v |-> 0]

\* undefined where a string is expected (process.env.X of an unset X, envKeys[i]
\* of an i that is no element's index)
JsUndefined == <<"undefined">>

\* x + 1: null converts to 0, undefined and NaN give NaN
JsPlus1(x) ==
    CASE x.t = "num" -> Num(x.v + 1)
      [] x.t = "null" -> Num(1)
      [] OTHER -> JsNaN

\* x % n for a number n > 0
JsMod(x, n) == IF x.t = "num" THEN Num(x.v % n) ELSE JsNaN

\* arr[x]: the element of a 0-based array, undefined for anything that is not
\* the index of an element (null, undefined and NaN name no element)
JsElem(arr, x) ==
    IF x.t = "num" /\ x.v >= 0 /\ x.v < Len(arr) THEN arr[x.v + 1] ELSE JsUndefined

\* `${x}` of an index value
JsToStr(x) ==
    CASE x.t = "num" -> ToString(x.v)
      [] x.t = "nan" -> "NaN"
      [] x.t = "null" -> "null"
      [] OTHER -> "undefined"

\* Boolean(s) of a string or undefined: false for "" and for undefined
Truthy(s) == s # JsUndefined /\ Len(s) > 0

\* s.startsWith(p)
StartsWith(s, p) == Len(p) <= Len(s) /\ SubSeq(s, 1, Len(p)) = p

\* ------------------------------------------------------------ inputs
Calls == {"c1", "c2"}
Storages == {"DISK", "MEMORY", "DATABASE"}
Omitted == "omitted"
StorageArgs == Storages \cup {Omitted}
Prefixes == {<<"A">>, <<"B">>}

\* The variables A1..An (the k-th one empty when k = hole) followed by B1..Bm.
EnvOf(n, hole, m) ==
    [i \in 1..n |-> [name |-> <<"A", ToString(i)>>,
                     value |-> IF i = hole THEN << >> ELSE <<"a", i>>]]
    \o [i \in 1..m |-> [name |-> <<"B", ToString(i)>>, value |-> <<"b", i>>]]

\* process.env as getEnvKeys enumerates it: name/value entries in order.
EnvConfigs ==
    { EnvOf(MaxKeys, 0, 2),         \* A: MaxKeys values, B: 2
      EnvOf(MaxKeys, 2, 1),         \* A: one value empty, B: 1
      EnvOf(2, 0, 0),               \* A: 2, B: none
      EnvOf(1, 1, 2) }              \* A: only an empty value, B: 2

\* DB_USERNAME, DB_PASSWORD, DB_NAME as set when the module is loaded.
DbEnvs ==
    { [DB_USERNAME |-> <<"u">>, DB_PASSWORD |-> <<"p">>, DB_NAME |-> <<"d">>],
      [DB_USERNAME |-> JsUndefined, DB_PASSWORD |-> <<"p">>, DB_NAME |-> <<"d">>],
      [DB_USERNAME |-> <<"u">>, DB_PASSWORD |-> << >>, DB_NAME |-> <<"d">>],
      [DB_USERNAME |-> <<"u">>, DB_PASSWORD |-> <<"p">>, DB_NAME |-> JsUndefined],
      [DB_USERNAME |-> <<"u">>, DB_PASSWORD |-> <<"p">>, DB_NAME |-> << >>] }

\* Errors the collaborators raise (error.message).
ConnErrors == {"ECONNREFUSED", "ETIMEDOUT"}
IoError == "EACCES"
DbError == "MongoServerError"

\* ------------------------------------------------------------ state
VARIABLES
    env,            \* process.env: the entries getEnvKeys scans, in order
    dbEnv,          \* DB_USERNAME, DB_PASSWORD, DB_NAME read at module load
    memoryCaches,   \* memoryCaches: prefix -> index, JsUndef for no entry
    files,          \* env_cache_<prefix>.json: prefix -> text, NoFile if none
    collection,     \* fileIndex: the documents, in insertion order
    client,         \* the cached MongoClient: 0 for null, else its number
    connections,    \* connections established so far
    calls,          \* the getNextEnvKey calls, by slot
    invoked,        \* invocations so far
    clean,          \* <<storage, prefix>> cursors that started with no record
                    \* and saw only successful, non-overlapping calls
    count           \* calls with n > 1 made on each clean cursor

vars == <<env, dbEnv, memoryCaches, files, collection, client, connections,
          calls, invoked, clean, count>>

\* ------------------------------------------------------------ configuration
\* getEnvKeys: filter by name prefix, map to the values, drop the falsy ones.
EnvValues(entries) == [i \in 1..Len(entries) |-> entries[i].value]
\* The values without the filter(Boolean).
getEnvKeysUnfiltered(e, baseEnvName) ==
    EnvValues(SelectSeq(e, LAMBDA x : StartsWith(x.name, baseEnvName)))

\* The values in the reverse of the enumeration order.
getEnvKeysReversed(e, baseEnvName) ==
    LET r == SelectSeq(EnvValues(SelectSeq(e, LAMBDA x : StartsWith(x.name, baseEnvName))),
                       Truthy)
    IN  [i \in 1..Len(r) |-> r[Len(r) + 1 - i]]

getEnvKeys(e, baseEnvName) ==
    SelectSeq(EnvValues(SelectSeq(e, LAMBDA x : StartsWith(x.name, baseEnvName))),
              Truthy)

\* The destructuring defaults of the module's configuration.
dbUsername(d) == IF d.DB_USERNAME = JsUndefined THEN << >> ELSE d.DB_USERNAME
dbPassword(d) == IF d.DB_PASSWORD = JsUndefined THEN << >> ELSE d.DB_PASSWORD
dbName(d) == IF d.DB_NAME = JsUndefined THEN <<"defaultDbName">> ELSE d.DB_NAME

\* The guard of handleDatabaseStorage.
CredentialsMissing(d) ==
    ~Truthy(dbUsername(d)) \/ ~Truthy(dbPassword(d)) \/ ~Truthy(dbName(d))

\* ------------------------------------------------------------ the cursor file
\* A file's text: none, text that is no JSON, the text null, or an object
\* with an index member (JsUndef: no such member).
NoFile == [k |-> "ENOENT", index |-> JsUndef]
Garbage == [k |-> "garbage", index |-> JsUndef]
NullText == [k |-> "null", index |-> JsUndef]
ObjText(x) == [k |-> "object", index |-> x]

\* JSON.parse: throws on text that is no JSON, else the value.
JSONparse(text) ==
    IF text.k = "garbage" THEN [ok |-> FALSE, val |-> NullText]
    ELSE [ok |-> TRUE, val |-> text]

\* JSON.stringify of a cache object: NaN is written as null, an undefined
\* member is left out.
JSONstringify(cache) ==
    IF cache.k = "object"
    THEN ObjText(IF cache.index.t = "nan" THEN JsNull ELSE cache.index)
    ELSE cache

\* path.join(__dirname, `env_cache_${baseEnvName}.json`): one file per prefix.
CacheFilePath(baseEnvName) == baseEnvName

\* ------------------------------------------------------------ the collection
DocName(baseEnvName) == <<"envCache_">> \o baseEnvName

Matching(coll, name) == {i \in 1..Len(coll) : coll[i].name = name}
First(S) == CHOOSE i \in S : \A j \in S : i <= j

\* collection.findOne({name}): the first matching document or null.
findOne(coll, name) ==
    IF Matching(coll, name) = {} THEN [found |-> FALSE, index |-> JsUndef]
    ELSE [found |-> TRUE, index |-> coll[First(Matching(coll, name))].index]

\* The document inserted with the index already advanced.
insertOneAdvanced(coll, name, x) == Append(coll, [name |-> name, index |-> JsPlus1(x)])

\* collection.insertOne(doc)
insertOne(coll, name, x) == Append(coll, [name |-> name, index |-> x])

\* collection.updateOne({name}, {$set: {index}}): the first matching document,
\* nothing when there is none (no upsert option is passed).
updateOne(coll, name, x) ==
    IF Matching(coll, name) = {} THEN coll
    ELSE [coll EXCEPT ![First(Matching(coll, name))].index = x]

\* ------------------------------------------------------------ results
\* EnvKeyResult; a message is the tuple of the parts the template joins.
NoResult == [key |-> << >>, index |-> JsUndef, message |-> << >>]

\* The catch of getNextEnvKey: { key: '', index: 0, message: `Error: ...` }.
ErrorResult(description) ==
    [key |-> << >>, index |-> Num(0), message |-> <<"Error: ">> \o description]

NoVariablesError(baseEnvName) ==
    <<"No environment variables found with base name ">> \o baseEnvName \o <<".">>
CredentialsError ==
    <<"DB_USERNAME, DB_PASSWORD, and DB_NAME environment variables must be set for database storage.">>
NullCacheError == <<"Cannot read properties of null (reading 'index')">>

SingleKeyResult(envKeys) ==
    [key |-> envKeys[1], index |-> Num(0),
     message |-> <<"Only one key available, using key with index 0.">>]

UpdatedResult(key, index, what) ==
    [key |-> key, index |-> index,
     message |-> <<"Successfully retrieved the key and updated the ", what,
                   " cache. Current index: ", JsToStr(index)>>]

IsFailure(r) == Len(r.message) > 0 /\ r.message[1] = "Error: "

\* ------------------------------------------------------------ one call
\* pc: idle, then for DATABASE connect/backoff/find/insert/update, for DISK
\* read/write, then done.  attempt is the loop counter of connectWithRetry
\* (0 outside it): the attempt being made, or the last one made when all
\* failed.  ops (the store operations settled), read, ord, thrown, lastError,
\* waits, seen, overlapped (another call on the same cursor was in flight
\* during this one) and arg (the storage argument as passed) record what the
\* call did, for the properties; the code does not read them.
IdleCall ==
    [pc |-> "idle", baseEnvName |-> << >>, storage |-> "DISK", envKeys |-> << >>,
     index |-> JsUndef, key |-> << >>, attempt |-> 0, text |-> NoFile,
     result |-> NoResult, ops |-> << >>, read |-> JsUndef, ord |-> 0,
     thrown |-> << >>, lastError |-> "", waits |-> << >>, seen |-> "nothing",
     overlapped |-> FALSE, arg |-> "DISK"]

Active(c) == c.pc \notin {"idle", "done"}

\* return r
Return(c, r) == [c EXCEPT !.pc = "done", !.result = r]

\* An error that no catch turns into a result: the promise rejects.
Uncaught(c, description) == [c EXCEPT !.pc = "raised", !.thrown = description]

\* throw new Error(description), caught at the boundary of getNextEnvKey
CaughtAtBoundary(c, description) ==
    [c EXCEPT !.pc = "done", !.thrown = description,
              !.result = ErrorResult(description)]
\* A failed findOne, insertOne or updateOne left for another try instead of
\* thrown.
ThrowUnlessRemote(c, description) ==
    IF c.pc \in {"find", "insert", "update"}
    THEN [c EXCEPT !.thrown = description]
    ELSE CaughtAtBoundary(c, description)

Throw(c, description) == CaughtAtBoundary(c, description)

Did(c, op) == [c EXCEPT !.ops = Append(@, op)]
OpCount(c, op) == Cardinality({i \in 1..Len(c.ops) : c.ops[i] = op})

\* ------------------------------------------------------------ MEMORY
\* One entry shared by every prefix.
MemoryKeyShared(baseEnvName) == <<"A">>

\* memoryCaches[baseEnvName]
MemoryKey(baseEnvName) == baseEnvName

\* The advance without its modulo.
AdvanceNoWrap(x, n) == JsPlus1(x)

\* (index + 1) % envKeys.length
Advance(x, n) == JsMod(JsPlus1(x), n)

\* The advanced index returned but not stored.
handleMemoryStorageLost(mem, envKeys, baseEnvName) ==
    LET k == baseEnvName
        m1 == IF mem[k] = JsUndef THEN [mem EXCEPT ![k] = Num(0)] ELSE mem
    IN  [mem |-> m1, read |-> m1[k],
         result |-> UpdatedResult(JsElem(envKeys, m1[k]),
                                  JsMod(JsPlus1(m1[k]), Len(envKeys)), "memory")]

\* handleMemoryStorage: the map and the result it leaves.
handleMemoryStorage(mem, envKeys, baseEnvName) ==
    LET k == MemoryKey(baseEnvName)
        m1 == IF mem[k] = JsUndef THEN [mem EXCEPT ![k] = Num(0)] ELSE mem
        key == JsElem(envKeys, m1[k])
        m2 == IF Len(envKeys) > 1
              THEN [m1 EXCEPT ![k] = Advance(m1[k], Len(envKeys))]
              ELSE m1
    IN  [mem |-> m2, read |-> m1[k],
         result |-> IF Len(envKeys) > 1
                    THEN UpdatedResult(key, m2[k], "memory")
                    ELSE [key |-> key, index |-> m2[k],
                          message |-> <<"Successfully retrieved the key. Only one key available, index remains 0.">>]]

\* ------------------------------------------------------------ DATABASE
\* attempts = 5 of connectWithRetry, and the 1000 ms of its setTimeout
Attempts == 5
BackoffUnit == 1000

\* The key picked after the advance instead of before it.
PickAfterAdvance(c, x) ==
    [c EXCEPT !.pc = "update",
              !.key = JsElem(c.envKeys, JsMod(JsPlus1(x), Len(c.envKeys))),
              !.index = JsMod(JsPlus1(x), Len(c.envKeys))]

\* Lines 143-152 of handleDatabaseStorage, once the index is known: pick the
\* key, advance, and go on to updateOne.
PickAndAdvance(c, x) ==
    IF Len(c.envKeys) > 1
    THEN [c EXCEPT !.pc = "update", !.key = JsElem(c.envKeys, x),
                   !.index = Advance(x, Len(c.envKeys))]
    ELSE Return(c, [key |-> JsElem(c.envKeys, x), index |-> Num(0),
                    message |-> <<"Successfully retrieved the key. Only one key available, index remains 0.">>])

\* The error connectWithRetry ends with when the attempt `attempt` failed with e.
RetryError(attempt, e) == e
\* One attempt too many.
RetryAgainOffByOne(attempt) == attempt <= 5

\* Whether connectWithRetry waits and tries again after a failed attempt.
RetryAgain(attempt) == attempt < Attempts

\* The same wait after every failed attempt.
BackoffDelayFlat(attempt) == BackoffUnit

\* setTimeout(resolve, 1000 * attempt): the wait after the failed attempt.
BackoffDelay(attempt) == BackoffUnit * attempt

\* connectWithRetry returns the client: its attempt counter and the error it
\* caught last are gone, and handleDatabaseStorage goes on to findOne.
Connected(c) ==
    [c EXCEPT !.pc = "find", !.attempt = 0, !.lastError = "", !.waits = << >>]

\* handleDatabaseStorage up to its first await: the credentials guard, then
\* connectToMongo, which connects only when no client is cached.
StartDatabase(c, cl, d) ==
    IF CredentialsMissing(d) THEN Throw(c, CredentialsError)
    ELSE IF cl = 0 THEN [c EXCEPT !.pc = "connect", !.attempt = 1]
    ELSE [c EXCEPT !.pc = "find"]

\* ------------------------------------------------------------ DISK
\* handleDiskStorage from the settled readFile to the issued writeFile.
\* readOk: readFile returned the text.
AfterRead(c, readOk, text) ==
    LET parsed == JSONparse(text)
        cache == IF readOk /\ parsed.ok THEN parsed.val ELSE ObjText(Num(0))
        c1 == [c EXCEPT !.seen = IF readOk \/ text = NoFile THEN text.k
                                 ELSE "unreadable"]
    IN  IF cache.k = "null" THEN Throw(c1, NullCacheError)
        ELSE LET key == JsElem(c1.envKeys, cache.index) IN
             IF Len(c1.envKeys) > 1
             THEN LET next == Advance(cache.index, Len(c1.envKeys)) IN
                  [c1 EXCEPT !.pc = "write", !.key = key, !.index = next,
                            !.read = cache.index,
                            !.text = JSONstringify([cache EXCEPT !.index = next])]
             ELSE Return([c1 EXCEPT !.read = cache.index],
                         [key |-> key, index |-> cache.index,
                          message |-> <<"Successfully retrieved the key. Only one key available, index remains 0.">>])

\* ------------------------------------------------------------ bookkeeping
CursorOf(c) == <<c.storage, c.baseEnvName>>
Failed(c) == c.pc = "done" /\ IsFailure(c.result)

\* No call is between its invocation and its result.
Quiet == \A c \in Calls : ~Active(calls[c])

\* A cursor stops being clean when a call on it fails or overlaps another.
Spoil(k) ==
    /\ clean' = clean \ {k}
    /\ count' = [count EXCEPT ![k] = 0]

Track(old, new) ==
    IF Failed(new) THEN Spoil(CursorOf(new))
    ELSE UNCHANGED <<clean, count>>

\* ------------------------------------------------------------ getNextEnvKey
\* The branches without the return for one key.
RouteNoFastPath(envKeys, storage) ==
    CASE Len(envKeys) = 0 -> "none"
      [] storage = "DATABASE" -> "DATABASE"
      [] storage = "MEMORY" -> "MEMORY"
      [] OTHER -> "DISK"

\* The branch getNextEnvKey takes: the throw for no key, the return for one
\* key, else the switch on storage, whose default is the DISK case.
Route(envKeys, storage) ==
    CASE Len(envKeys) = 0 -> "none"
      [] Len(envKeys) = 1 -> "single"
      [] storage = "DATABASE" -> "DATABASE"
      [] storage = "MEMORY" -> "MEMORY"
      [] OTHER -> "DISK"

\* The parameter default of an omitted storage, taken for the file store.
StorageDefaultDisk(storageArg) ==
    IF storageArg = Omitted THEN "DISK" ELSE storageArg

\* { baseEnvName, storage = 'DATABASE' }: the default of the parameter.
StorageOrDefault(storageArg) ==
    IF storageArg = Omitted THEN "DATABASE" ELSE storageArg

\* The invocation runs to the first await: MEMORY calls finish in it.
Invoke(c, baseEnvName, storageArg) ==
    LET storage == StorageOrDefault(storageArg)
        envKeys == getEnvKeys(env, baseEnvName)
        route == Route(envKeys, storage)
        k == <<storage, baseEnvName>>
        stored == route \in Storages
        overlap == \E d \in Calls \ {c} : Active(calls[d]) /\ CursorOf(calls[d]) = k
        tracked == k \in clean /\ ~overlap /\ stored
        c0 == [IdleCall EXCEPT !.baseEnvName = baseEnvName, !.storage = storage,
                               !.envKeys = envKeys, !.overlapped = overlap,
                               !.arg = storageArg,
                               !.ord = IF tracked THEN count[k] + 1 ELSE 0]
        hm == handleMemoryStorage(memoryCaches, envKeys, baseEnvName)
        new == CASE route = "none" -> Throw(c0, NoVariablesError(baseEnvName))
                 [] route = "single" -> Return(c0, SingleKeyResult(envKeys))
                 [] route = "DATABASE" -> StartDatabase(c0, client, dbEnv)
                 [] route = "MEMORY" ->
                      Return([Did(Did(c0, "memRead"), "memWrite") EXCEPT !.read = hm.read],
                             hm.result)
                 [] OTHER -> [c0 EXCEPT !.pc = "read"]
    IN  /\ ~Active(calls[c])
        /\ invoked' = invoked + 1
        /\ calls' = [d \in Calls |->
                        IF d = c THEN new
                        ELSE IF Active(calls[d]) /\ CursorOf(calls[d]) = k
                        THEN [calls[d] EXCEPT !.overlapped = TRUE]
                        ELSE calls[d]]
        /\ memoryCaches' = IF route = "MEMORY" THEN hm.mem ELSE memoryCaches
        /\ IF stored /\ (overlap \/ Failed(new)) THEN Spoil(k)
           ELSE IF tracked
                THEN clean' = clean /\ count' = [count EXCEPT ![k] = @ + 1]
                ELSE UNCHANGED <<clean, count>>
        /\ UNCHANGED <<env, dbEnv, files, collection, client, connections>>

getNextEnvKey(c, baseEnvName, storageArg) ==
    invoked < MaxCalls /\ Quiet /\ Invoke(c, baseEnvName, storageArg)

\* The same invocation by a caller that does not wait for the calls in flight.
getNextEnvKeyOverlapping(c, baseEnvName, storageArg) ==
    invoked < MaxConcCalls /\ Invoke(c, baseEnvName, storageArg)

\* await client.connect() settles.
ConnectAttempt(c) ==
    /\ calls[c].pc = "connect"
    /\ \/ \* connected: connectToMongo caches the client and the db
          /\ client' = connections + 1
          /\ connections' = connections + 1
          /\ calls' = [calls EXCEPT ![c] = Connected(@)]
          /\ UNCHANGED <<clean, count>>
       \/ \E e \in ConnErrors :
            LET c1 == [calls[c] EXCEPT !.lastError = e]
                new == IF RetryAgain(c1.attempt)
                       THEN [c1 EXCEPT !.pc = "backoff",
                                       !.waits = Append(@, BackoffDelay(c1.attempt))]
                       ELSE Throw(c1, <<RetryError(c1.attempt, e)>>)
            IN  /\ calls' = [calls EXCEPT ![c] = new]
                /\ Track(calls[c], new)
                /\ UNCHANGED <<client, connections>>
    /\ UNCHANGED <<env, dbEnv, memoryCaches, files, collection, invoked>>

\* The setTimeout of connectWithRetry fires: the next attempt starts.
BackoffTimer(c) ==
    /\ calls[c].pc = "backoff"
    /\ calls' = [calls EXCEPT ![c] = [@ EXCEPT !.pc = "connect", !.attempt = @ + 1]]
    /\ UNCHANGED <<env, dbEnv, memoryCaches, files, collection, client,
                   connections, invoked, clean, count>>

\* await collection.findOne(...) settles.
FindOne(c) ==
    /\ calls[c].pc = "find"
    /\ \E ok \in BOOLEAN :
         LET c1 == Did(calls[c], "findOne")
             doc == findOne(collection, DocName(c1.baseEnvName))
             new == IF ~ok THEN Throw(c1, <<DbError>>)
                    ELSE IF ~doc.found
                    THEN [c1 EXCEPT !.pc = "insert", !.index = Num(0), !.read = Num(0)]
                    ELSE PickAndAdvance([c1 EXCEPT !.read = doc.index], doc.index)
         IN  /\ calls' = [calls EXCEPT ![c] = new]
             /\ Track(calls[c], new)
    /\ UNCHANGED <<env, dbEnv, memoryCaches, files, collection, client,
                   connections, invoked>>

\* await collection.insertOne(...) settles.
InsertOne(c) ==
    /\ calls[c].pc = "insert"
    /\ \E ok \in BOOLEAN :
         LET c1 == Did(calls[c], "insertOne")
             new == IF ok THEN PickAndAdvance(c1, c1.index) ELSE Throw(c1, <<DbError>>)
         IN  /\ calls' = [calls EXCEPT ![c] = new]
             /\ collection' = IF ok
                              THEN insertOne(collection, DocName(c1.baseEnvName), Num(0))
                              ELSE collection
             /\ Track(calls[c], new)
    /\ UNCHANGED <<env, dbEnv, memoryCaches, files, client, connections, invoked>>

\* await collection.updateOne(...) settles.
UpdateOne(c) ==
    /\ calls[c].pc = "update"
    /\ \E ok \in BOOLEAN :
         LET c1 == Did(calls[c], "updateOne")
             new == IF ok THEN Return(c1, UpdatedResult(c1.key, c1.index, "database"))
                    ELSE Throw(c1, <<DbError>>)
         IN  /\ calls' = [calls EXCEPT ![c] = new]
             /\ collection' = IF ok
                              THEN updateOne(collection, DocName(c1.baseEnvName), c1.index)
                              ELSE collection
             /\ Track(calls[c], new)
    /\ UNCHANGED <<env, dbEnv, memoryCaches, files, client, connections, invoked>>

\* await fs.readFile(...) settles: it fails when there is no file, and may
\* fail on a file that is there.
ReadFile(c) ==
    /\ calls[c].pc = "read"
    /\ \E ok \in BOOLEAN :
         LET text == files[CacheFilePath(calls[c].baseEnvName)]
             new == AfterRead(Did(calls[c], "readFile"), ok, text)
         IN  /\ ok => text # NoFile
             /\ calls' = [calls EXCEPT ![c] = new]
             /\ IF (~ok /\ text # NoFile) \/ Failed(new) THEN Spoil(CursorOf(new))
                ELSE UNCHANGED <<clean, count>>
    /\ UNCHANGED <<env, dbEnv, memoryCaches, files, collection, client,
                   connections, invoked>>

\* await fs.writeFile(...) settles.
WriteFile(c) ==
    /\ calls[c].pc = "write"
    /\ \E ok \in BOOLEAN :
         LET c1 == Did(calls[c], "writeFile")
             new == IF ok THEN Return(c1, UpdatedResult(c1.key, c1.index, "file"))
                    ELSE Throw(c1, <<IoError>>)
         IN  /\ calls' = [calls EXCEPT ![c] = new]
             /\ files' = IF ok
                         THEN [files EXCEPT ![CacheFilePath(c1.baseEnvName)] = c1.text]
                         ELSE files
             /\ Track(calls[c], new)
    /\ UNCHANGED <<env, dbEnv, memoryCaches, collection, client, connections, invoked>>

\* ------------------------------------------------------------ specification
\* Texts a cursor file left by an earlier process may hold.
SeedTexts ==
    {Garbage, NullText, ObjText(JsUndef), ObjText(JsNull)}
    \cup {ObjText(Num(i)) : i \in 0..MaxSeed}

FullEnv == EnvOf(MaxKeys, 0, 2)
FullDbEnv == [DB_USERNAME |-> <<"u">>, DB_PASSWORD |-> <<"p">>, DB_NAME |-> <<"d">>]

\* The cursors with no record at the start.
FreshCursors ==
    {<<"MEMORY", p>> : p \in Prefixes}
    \cup {<<"DISK", p>> : p \in {q \in Prefixes : files[CacheFilePath(q)] = NoFile}}
    \cup {<<"DATABASE", p>> :
            p \in {q \in Prefixes : ~findOne(collection, DocName(q)).found}}

\* The module is loaded: no client, an empty memory map.  Either the stores
\* are empty and the configuration is any, or the configuration is the full
\* one and a file or a document is left from an earlier process.
Init ==
    /\ memoryCaches = [p \in Prefixes |-> JsUndef]
    /\ client = 0
    /\ connections = 0
    /\ calls = [c \in Calls |-> IdleCall]
    /\ invoked = 0
    /\ \/ /\ env \in EnvConfigs
          /\ dbEnv \in DbEnvs
          /\ files = [p \in Prefixes |-> NoFile]
          /\ collection = << >>
       \/ /\ env = FullEnv
          /\ dbEnv = FullDbEnv
          /\ \E t \in SeedTexts : files = [p \in Prefixes |-> IF p = <<"A">> THEN t ELSE NoFile]
          /\ collection = << >>
       \/ /\ env = FullEnv
          /\ dbEnv = FullDbEnv
          /\ files = [p \in Prefixes |-> NoFile]
          /\ \E i \in 0..MaxSeed :
               collection = <<[name |-> DocName(<<"A">>), index |-> Num(i)]>>
    /\ clean = FreshCursors
    /\ count = [k \in Storages \X Prefixes |-> 0]

Step(c) ==
    \/ ConnectAttempt(c)
    \/ BackoffTimer(c)
    \/ FindOne(c)
    \/ InsertOne(c)
    \/ UpdateOne(c)
    \/ ReadFile(c)
    \/ WriteFile(c)

\* A caller that awaits each call before it makes the next.
Next ==
    \/ \E p \in Prefixes, s \in StorageArgs : getNextEnvKey("c1", p, s)
    \/ \E c \in Calls : Step(c)

Spec == Init /\ [][Next]_vars

\* Callers that do not wait for each other: calls overlap at their awaits.
\* The configuration is complete and the stores are empty or hold a document;
\* the callers name the storage (an omitted one is the sequential caller's).
ConcInit ==
    /\ Init
    /\ env = FullEnv
    /\ dbEnv = FullDbEnv
    /\ files = [p \in Prefixes |-> NoFile]

ConcNext ==
    \/ \E c \in Calls, p \in Prefixes, s \in Storages :
          getNextEnvKeyOverlapping(c, p, s)
    \/ \E c \in Calls : Step(c)

ConcSpec == ConcInit /\ [][ConcNext]_vars

\* Every await settles and every timer fires: a call in flight takes its
\* next step.  The stores are empty at the start.
FairInit == ConcInit /\ collection = << >>
FairSpec == FairInit /\ [][ConcNext]_vars /\ \A c \in Calls : WF_vars(Step(c))

\* process.env is assigned between two calls: getEnvKeys scans it anew on
\* every call, so the next call resolves another list.  The credentials were
\* read when the module was loaded and stay.  No cursor counts as clean after.
SetEnv(e) ==
    /\ Quiet
    /\ invoked < MaxCalls
    /\ e # env
    /\ env' = e
    /\ clean' = {}
    /\ count' = [k \in Storages \X Prefixes |-> 0]
    /\ UNCHANGED <<dbEnv, memoryCaches, files, collection, client, connections,
                   calls, invoked>>

\* A process that starts with empty stores and complete credentials, and
\* whose configuration changes while it runs.
ReconfInit ==
    /\ Init
    /\ dbEnv = FullDbEnv
    /\ files = [p \in Prefixes |-> NoFile]
    /\ collection = << >>

ReconfNext ==
    \/ Next
    \/ \E e \in EnvConfigs : SetEnv(e)

ReconfSpec == ReconfInit /\ [][ReconfNext]_vars

\* Every process.env of at most MaxEnvLen entries with distinct names, the
\* names equal to a prefix, starting with one, or only containing one, the
\* values empty or not; the calls are MEMORY calls, which end in one step
\* with the list getEnvKeys resolved.
ResolverNames == {<<"A">>, <<"A", "1">>, <<"B", "1">>, <<"B", "A">>}
ResolverValues == {<< >>, <<"x">>, <<"y">>}
ResolverEnvs ==
    {e \in UNION {[1..n -> [name : ResolverNames, value : ResolverValues]] :
                    n \in 0..MaxEnvLen} :
        \A i, j \in 1..Len(e) : e[i].name = e[j].name => i = j}

ResolverInit ==
    /\ env \in ResolverEnvs
    /\ dbEnv = FullDbEnv
    /\ memoryCaches = [p \in Prefixes |-> JsUndef]
    /\ files = [p \in Prefixes |-> NoFile]
    /\ collection = << >>
    /\ client = 0
    /\ connections = 0
    /\ calls = [c \in Calls |-> IdleCall]
    /\ invoked = 0
    /\ clean = FreshCursors
    /\ count = [k \in Storages \X Prefixes |-> 0]

ResolverNext == \E p \in Prefixes : getNextEnvKey("c1", p, "MEMORY")

ResolverSpec == ResolverInit /\ [][ResolverNext]_vars

\* ------------------------------------------------------------ properties
Done(c) == calls[c].pc = "done"
Succeeded(c) == Done(c) /\ ~IsFailure(calls[c].result)
N(c) == Len(calls[c].envKeys)
Candidate(c, i) == calls[c].envKeys[i + 1]

\* What a store holds for a prefix: the index, JsUndef for no record.
StoredCursor(storage, p) ==
    CASE storage = "MEMORY" -> memoryCaches[p]
      [] storage = "DISK" -> files[p].index
      [] OTHER -> findOne(collection, <<"envCache_">> \o p).index

StoresUnchanged == UNCHANGED <<memoryCaches, files, collection, client, connections>>

\* C1: on a cursor that started with no record, with a fixed candidate list of
\* length n > 1 and calls that neither overlap nor fail, the k-th call returns
\* candidates[(k-1) mod n] and index k mod n, for each of the three backends.
C1_RoundRobin ==
    \A c \in Calls :
        (Done(c) /\ calls[c].ord > 0 /\ CursorOf(calls[c]) \in clean)
        => /\ N(c) > 1
           /\ calls[c].result.key = Candidate(c, (calls[c].ord - 1) % N(c))
           /\ calls[c].result.index = Num(calls[c].ord % N(c))

\* The third call on a fresh DATABASE cursor of two candidates wraps around.
C1_Witness ==
    \E c \in Calls :
        /\ Done(c) /\ CursorOf(calls[c]) \in clean
        /\ calls[c].storage = "DATABASE" /\ calls[c].ord = 3 /\ N(c) = 2
        /\ calls[c].result.key = Candidate(c, 0)
        /\ calls[c].result.index = Num(1)

\* C2: a successful call (no collaborator failed) on a cursor i, 0 <= i < n,
\* returns candidates[i] and (i + 1) mod n, and when it returns the store
\* holds (i + 1) mod n under the same cursor key.
C2_SingleAdvance ==
    \A c \in Calls :
        (/\ Succeeded(c) /\ N(c) > 1 /\ calls[c].seen # "unreadable"
         /\ calls[c].read.t = "num" /\ calls[c].read.v < N(c))
        => /\ calls[c].result.key = Candidate(c, calls[c].read.v)
           /\ calls[c].result.index = Num((calls[c].read.v + 1) % N(c))
           /\ StoredCursor(calls[c].storage, calls[c].baseEnvName)
                = Num((calls[c].read.v + 1) % N(c))

\* A document seeded with 3 for a 5-element list: element 3 served, 4 stored.
C2_Witness ==
    \E c \in Calls :
        /\ Succeeded(c) /\ calls[c].storage = "DATABASE" /\ N(c) = 5
        /\ calls[c].ops = <<"findOne", "updateOne">>
        /\ calls[c].read = Num(3)
        /\ calls[c].result.key = <<"a", 4>>
        /\ StoredCursor("DATABASE", calls[c].baseEnvName) = Num(4)

\* C3: with exactly one candidate every call, whatever the storage selector,
\* the stores and the credentials, returns that value with index 0 and makes
\* no store read, no store write and no connection attempt.
C3_SingleFastPath ==
    [][\A c \in Calls : \A p \in Prefixes :
          (calls'[c] # calls[c] /\ calls'[c].baseEnvName = p
             /\ Cardinality({i \in 1..Len(env) :
                   StartsWith(env[i].name, p) /\ env[i].value # << >>}) = 1)
          => /\ calls'[c].pc = "done"
             /\ \E i \in 1..Len(env) :
                    /\ StartsWith(env[i].name, p)
                    /\ calls'[c].result.key = env[i].value
                    /\ env[i].value # << >>
             /\ calls'[c].result.index = Num(0)
             /\ ~IsFailure(calls'[c].result)
             /\ calls'[c].ops = << >> /\ calls'[c].attempt = 0
             /\ StoresUnchanged]_vars

\* One candidate, DATABASE selected, credentials missing, a file left behind.
C3_Witness ==
    \E c \in Calls :
        /\ Done(c) /\ N(c) = 1 /\ calls[c].storage = "DATABASE"
        /\ CredentialsMissing(dbEnv)
        /\ calls[c].result.key = <<"b", 1>> /\ calls[c].result.index = Num(0)
        /\ memoryCaches[<<"A">>] # JsUndef

\* C4: when no entry with a non-empty value has a name starting with the
\* prefix, the call returns key "", index 0 and the message that no variables
\* were found, for every storage selector, and reads and writes no store.
C4_ZeroCandidates ==
    [][\A c \in Calls : \A p \in Prefixes :
          (calls'[c] # calls[c] /\ calls'[c].baseEnvName = p
             /\ ~\E i \in 1..Len(env) :
                   StartsWith(env[i].name, p) /\ env[i].value # << >>)
          => /\ calls'[c].pc = "done"
             /\ calls'[c].result =
                  [key |-> << >>, index |-> Num(0),
                   message |-> <<"Error: ",
                                 "No environment variables found with base name ">>
                               \o p \o <<".">>]
             /\ calls'[c].ops = << >> /\ calls'[c].attempt = 0
             /\ StoresUnchanged]_vars

\* The only variable of the prefix is empty; MEMORY is selected.
C4_Witness ==
    \E c \in Calls :
        /\ Done(c) /\ calls[c].baseEnvName = <<"A">> /\ calls[c].storage = "MEMORY"
        /\ \E i \in 1..Len(env) : StartsWith(env[i].name, <<"A">>)
        /\ N(c) = 0
        /\ calls[c].result.key = << >>
        /\ IsFailure(calls[c].result)

\* C5: a call never ends by raising; whatever was thrown inside it, by the
\* code or by a collaborator, the result is exactly
\* { key: "", index: 0, message: "Error: " + description }.
C5_NeverRaises ==
    \A c \in Calls :
        /\ calls[c].pc # "raised"
        /\ Done(c) => calls[c].result # NoResult
        /\ (calls[c].thrown # << >>)
           => /\ Done(c)
              /\ calls[c].result = [key |-> << >>, index |-> Num(0),
                                    message |-> <<"Error: ">> \o calls[c].thrown]
        /\ (Done(c) /\ calls[c].thrown = << >>) => ~IsFailure(calls[c].result)

\* A TypeError inside handleDiskStorage (the file holds null) ends as a result.
C5_Witness ==
    \E c \in Calls :
        /\ Done(c) /\ calls[c].ops = <<"readFile">>
        /\ calls[c].thrown = <<"Cannot read properties of null (reading 'index')">>
        /\ calls[c].result.key = << >>

\* C6: a MEMORY call for one prefix leaves the memory cursor of every other
\* prefix unchanged, and what a MEMORY call serves depends only on the cursor
\* of its own prefix.
C6_MemoryIsolation ==
    [][\A q \in Prefixes :
          /\ memoryCaches'[q] # memoryCaches[q]
             => \E c \in Calls : /\ calls'[c] # calls[c]
                                 /\ calls'[c].storage = "MEMORY"
                                 /\ calls'[c].baseEnvName = q
          /\ \A c \in Calls :
                (/\ calls'[c] # calls[c] /\ calls'[c].storage = "MEMORY"
                 /\ calls'[c].baseEnvName = q /\ Len(calls'[c].envKeys) > 1)
                => LET i == IF memoryCaches[q] = JsUndef THEN 0 ELSE memoryCaches[q].v
                   IN  /\ calls'[c].result.key = calls'[c].envKeys[i + 1]
                       /\ memoryCaches'[q] = Num((i + 1) % Len(calls'[c].envKeys))]_vars

\* Both prefixes have been served from memory and their cursors differ.
C6_Witness ==
    /\ memoryCaches[<<"A">>] = Num(2)
    /\ memoryCaches[<<"B">>] = Num(1)

\* C7 as claimed: a DISK call that finds the file missing, unreadable, not
\* parsable or parsable without an integer index serves candidates[0], returns
\* index 1 and writes index 1, with no error result (the write not failing).
Malformed(c) ==
    \/ calls[c].seen \in {"ENOENT", "unreadable", "garbage", "null"}
    \/ calls[c].seen = "object" /\ calls[c].read.t # "num"

C7_FileRecovery ==
    \A c \in Calls :
        (/\ calls[c].storage = "DISK" /\ N(c) > 1 /\ Malformed(c)
         /\ calls[c].thrown # <<IoError>>)
        => /\ calls[c].pc = "write" \/ Succeeded(c)
           /\ calls[c].pc = "write" => calls[c].text = ObjText(Num(1))
           /\ Done(c) => /\ calls[c].result.key = Candidate(c, 0)
                         /\ calls[c].result.index = Num(1)
                         /\ files[calls[c].baseEnvName] = ObjText(Num(1))

\* C8 as claimed: a DATABASE call with n > 1 and one of DB_USERNAME,
\* DB_PASSWORD, DB_NAME absent returns a failure at once, with no connection
\* attempt and no access to the collection.
C8_MissingCredentials ==
    \A c \in Calls :
        (/\ calls[c].pc # "idle" /\ calls[c].storage = "DATABASE" /\ N(c) > 1
         /\ \/ dbEnv.DB_USERNAME = JsUndefined
            \/ dbEnv.DB_PASSWORD = JsUndefined
            \/ dbEnv.DB_NAME = JsUndefined)
        => /\ Done(c) /\ IsFailure(calls[c].result)
           /\ calls[c].ops = << >> /\ calls[c].attempt = 0

\* C9: a DATABASE call makes at most 5 connection attempts, numbered 1, 2, ...
\* by its counter; when all fail it ends, after exactly 5, with the failure
\* result of the last connection error; the collection is accessed only with
\* a connection established; and a call that is connecting always ends.
ConnectionFailed(c) == \E e \in ConnErrors : calls[c].thrown = <<e>>
C9_BoundedRetry ==
    /\ [](\A c \in Calls :
            /\ calls[c].attempt <= 5
            /\ (Done(c) /\ ConnectionFailed(c))
               => /\ calls[c].attempt = 5
                  /\ calls[c].ops = << >>
                  /\ calls[c].result = [key |-> << >>, index |-> Num(0),
                                        message |-> <<"Error: ", calls[c].lastError>>]
            /\ calls[c].ops # << >> /\ calls[c].storage = "DATABASE" => client # 0)
    /\ [][\A c \in Calls :
            (calls'[c].pc = "connect" /\ calls[c].pc # "connect")
            => calls'[c].attempt = IF calls[c].pc = "backoff"
                                   THEN calls[c].attempt + 1 ELSE 1]_vars
    /\ \A c \in Calls : (calls[c].pc = "connect") ~> Done(c)

\* Five attempts failed, the last one differently from the first ones.
C9_Witness ==
    \E c \in Calls :
        /\ Done(c) /\ calls[c].attempt = 5
        /\ calls[c].waits = <<1000, 2000, 3000, 4000>>
        /\ calls[c].result.message = <<"Error: ", "ETIMEDOUT">>
        /\ client = 0

\* C10: MEMORY calls issued without waiting for each other, for one prefix
\* with n > 1, lose no update: after m of them the cursor is m mod n (it
\* starts with no entry, read as 0), and the k-th serves candidates[(k-1) mod n].
C10_MemoryNoLostUpdate ==
    \A p \in Prefixes :
        LET n == Len(getEnvKeys(env, p))
            m == count[<<"MEMORY", p>>]
        IN  n > 1 =>
            /\ <<"MEMORY", p>> \in clean
            /\ memoryCaches[p] = IF m = 0 THEN JsUndef ELSE Num(m % n)
            /\ \A c \in Calls :
                  (Done(c) /\ calls[c].storage = "MEMORY" /\ calls[c].baseEnvName = p)
                  => /\ calls[c].ord \in 1..m
                     /\ calls[c].read = Num((calls[c].ord - 1) % n)
                     /\ calls[c].result.key = Candidate(c, (calls[c].ord - 1) % n)
                     /\ \A d \in Calls \ {c} :
                           (Done(d) /\ calls[d].storage = "MEMORY"
                            /\ calls[d].baseEnvName = p)
                           => calls[d].ord # calls[c].ord

\* Two MEMORY calls for the two-candidate prefix: both served, cursor back at 0.
C10_Witness ==
    /\ \A c \in Calls : Done(c) /\ calls[c].storage = "MEMORY"
                        /\ calls[c].baseEnvName = <<"B">>
    /\ {calls[c].result.key : c \in Calls} = {<<"b", 1>>, <<"b", 2>>}
    /\ memoryCaches[<<"B">>] = Num(0)

\* C11 as claimed: two DATABASE calls for the same prefix (n > 1) that were in
\* flight at the same time and did not fail lose no update: one serves
\* candidates[i], the other candidates[(i+1) mod n], i the index one of them
\* found, and the document ends with (i+2) mod n.
OverlappedPair(c, d) ==
    /\ c # d /\ invoked = 2
    /\ Succeeded(c) /\ Succeeded(d)
    /\ calls[c].storage = "DATABASE" /\ calls[d].storage = "DATABASE"
    /\ calls[c].baseEnvName = calls[d].baseEnvName
    /\ calls[c].overlapped /\ calls[d].overlapped
    /\ N(c) > 1
    /\ calls[c].read.v < N(c) /\ calls[d].read.v < N(d)

C11_RemoteNoLostUpdate ==
    (\E c, d \in Calls : OverlappedPair(c, d))
    => \E c, d \in Calls :
          LET i == calls[c].read.v IN
          /\ OverlappedPair(c, d)
          /\ calls[c].result.key = Candidate(c, i)
          /\ calls[d].result.key = Candidate(d, (i + 1) % N(c))
          /\ StoredCursor("DATABASE", calls[c].baseEnvName) = Num((i + 2) % N(c))

\* C12 as claimed: whatever the backend and the prefix, and however the
\* configuration changed between the calls, the index a call with n > 1 read
\* and the index it persists (or is about to) are integers in 0..n-1, n the
\* length of the list that call resolved.
InRange(x, n) == x.t = "num" /\ 0 <= x.v /\ x.v < n
HasRead(c) == calls[c].pc \in {"insert", "update", "write"} \/ Succeeded(c)
Persisted(c) == IF Done(c) THEN calls[c].result.index ELSE calls[c].index

C12_CursorRange ==
    \A c \in Calls :
        (N(c) > 1 /\ HasRead(c))
        => /\ InRange(calls[c].read, N(c))
           /\ InRange(Persisted(c), N(c))

\* C13 as claimed: over any DATABASE calls of one process, overlapping ones
\* included, at most one connection is ever established, and once a client
\* is cached no call is making or waiting to make a connection attempt.
C13_SingletonConnection ==
    /\ connections <= 1
    /\ client # 0 => \A c \in Calls : calls[c].pc \notin {"connect", "backoff"}

\* C14 as claimed: in every reachable state, overlapping first accesses
\* included, the collection holds at most one document named envCache_<prefix>
\* for each prefix.
C14_OneDocumentPerKey ==
    \A p \in Prefixes : Cardinality(Matching(collection, DocName(p))) <= 1

\* C15: when findOne, insertOne or updateOne fails (the connection being
\* there), the call ends at that step with the failure result of that error;
\* the failed operation is the last one of the call and was made once, the
\* collection is left as it was, and the call does nothing afterwards.
RemoteOps == {"findOne", "insertOne", "updateOne"}
C15_RemoteNotRetried ==
    /\ [](\A c \in Calls :
            (calls[c].thrown = <<DbError>>)
            => /\ Done(c) /\ client # 0
               /\ calls[c].result = [key |-> << >>, index |-> Num(0),
                                     message |-> <<"Error: ", DbError>>]
               /\ calls[c].ops \in {<<"findOne">>, <<"findOne", "insertOne">>,
                                    <<"findOne", "updateOne">>,
                                    <<"findOne", "insertOne", "updateOne">>})
    /\ [][\A c \in Calls :
            /\ (calls'[c].thrown = <<DbError>> /\ calls[c].thrown # <<DbError>>)
               => /\ \E op \in RemoteOps :
                        /\ calls'[c].ops = Append(calls[c].ops, op)
                        /\ OpCount(calls'[c], op) = 1
                  /\ collection' = collection
            /\ (calls[c].thrown = <<DbError>> /\ calls'[c] # calls[c])
               => /\ invoked' = invoked + 1
                  /\ calls'[c].ops \in {<< >>, <<"memRead", "memWrite">>}]_vars

\* insertOne failed after findOne found no document: nothing was inserted
\* and updateOne was not called.
C15_Witness ==
    \E c \in Calls :
        /\ Done(c) /\ calls[c].thrown = <<DbError>>
        /\ calls[c].ops = <<"findOne", "insertOne">>
        /\ calls[c].result.message = <<"Error: ", DbError>>
        /\ collection = << >>

\* C16: a call with n > 1 reads and writes only the store its storage
\* argument selects, the remote one when the argument is omitted: its store
\* operations and connection attempts are those of that backend, and a step
\* of the call leaves the other two stores as they were.
Selected(c) == IF c.arg = Omitted THEN "DATABASE" ELSE c.arg
OpsOf(storage) ==
    CASE storage = "MEMORY" -> {"memRead", "memWrite"}
      [] storage = "DISK" -> {"readFile", "writeFile"}
      [] OTHER -> {"findOne", "insertOne", "updateOne"}

C16_OnlySelectedBackend ==
    /\ [](\A c \in Calls :
            (calls[c].pc # "idle" /\ N(c) > 1)
            => /\ \A i \in 1..Len(calls[c].ops) :
                     calls[c].ops[i] \in OpsOf(Selected(calls[c]))
               /\ calls[c].attempt > 0 => Selected(calls[c]) = "DATABASE"
               /\ Done(c) /\ calls[c].thrown = << >> => calls[c].ops # << >>)
    /\ [][\A c \in Calls :
            (calls'[c] # calls[c] /\ Len(calls'[c].envKeys) > 1)
            => /\ Selected(calls'[c]) # "MEMORY" => memoryCaches' = memoryCaches
               /\ Selected(calls'[c]) # "DISK" => files' = files
               /\ Selected(calls'[c]) # "DATABASE"
                  => /\ collection' = collection
                     /\ client' = client /\ connections' = connections]_vars

\* The same prefix served from the file (seeded with 3), from memory and, the
\* argument omitted, from the collection: three cursors, each its own.
C16_Witness ==
    \E c \in Calls :
        /\ Succeeded(c) /\ calls[c].arg = Omitted
        /\ calls[c].baseEnvName = <<"A">> /\ N(c) = 5
        /\ calls[c].ops = <<"findOne", "insertOne", "updateOne">>
        /\ StoredCursor("DATABASE", <<"A">>) = Num(1)
        /\ StoredCursor("MEMORY", <<"A">>) = Num(1)
        /\ StoredCursor("DISK", <<"A">>) = Num(4)

\* C17: the list a call resolves holds exactly the values of the entries whose
\* name starts with the prefix and whose value is not empty, the j-th element
\* being the value of the j-th such entry of process.env; and a call that
\* follows another for the same prefix, process.env unchanged, resolves the
\* same list.
NameHasPrefix(name, p) ==
    Len(p) <= Len(name) /\ \A j \in 1..Len(p) : name[j] = p[j]
Selection(e, p) ==
    {i \in 1..Len(e) : NameHasPrefix(e[i].name, p) /\ e[i].value # << >>}
IsResolution(r, e, p) ==
    /\ Len(r) = Cardinality(Selection(e, p))
    /\ \A k \in Selection(e, p) :
          r[Cardinality({i \in Selection(e, p) : i <= k})] = e[k].value

C17_Resolver ==
    /\ [](\A c \in Calls :
            calls[c].pc # "idle"
            => IsResolution(calls[c].envKeys, env, calls[c].baseEnvName))
    /\ [][\A c \in Calls :
            (/\ calls[c].pc = "done" /\ calls'[c] # calls[c] /\ env' = env
             /\ calls'[c].baseEnvName = calls[c].baseEnvName)
            => calls'[c].envKeys = calls[c].envKeys]_vars

\* Three entries: A1, then BA, which only contains the prefix A, then A.  Two
\* calls for A resolved the values of the first and the third, in that order.
C17_Witness ==
    \E c \in Calls :
        /\ Done(c) /\ invoked = 2 /\ calls[c].baseEnvName = <<"A">>
        /\ Len(env) = 3
        /\ env[1] = [name |-> <<"A", "1">>, value |-> <<"y">>]
        /\ env[2] = [name |-> <<"B", "A">>, value |-> <<"x">>]
        /\ env[3] = [name |-> <<"A">>, value |-> <<"x">>]
        /\ calls[c].envKeys = <<<<"y">>, <<"x">>>>
        /\ memoryCaches[<<"A">>] = Num(0)

\* C18 as claimed: the wait after failed attempt k is k units of 1000 ms,
\* whether the call then tries again or gives up, so a connection
\* establishment whose attempts all fail has waited 1, 2, 3, 4 and 5 units.
LinearWaits(m) == [k \in 1..m |-> 1000 * k]
C18_LinearBackoffClaimed ==
    \A c \in Calls :
        /\ calls[c].pc = "backoff" => calls[c].waits = LinearWaits(calls[c].attempt)
        /\ (Done(c) /\ ConnectionFailed(c)) => calls[c].waits = LinearWaits(5)

\* C18, amended: the wait after failed attempt k is k units of 1000 ms for
\* k = 1..4, each followed by attempt k + 1; after the fifth failed attempt
\* the call gives up at once, so a connection establishment whose attempts
\* all fail has waited 1, 2, 3 and 4 units.
C18_LinearBackoff ==
    /\ [](\A c \in Calls :
            /\ calls[c].pc = "backoff"
               => /\ calls[c].attempt \in 1..4
                  /\ calls[c].waits = LinearWaits(calls[c].attempt)
            /\ calls[c].pc = "connect"
               => calls[c].waits = LinearWaits(calls[c].attempt - 1)
            /\ (Done(c) /\ ConnectionFailed(c))
               => /\ calls[c].attempt = 5
                  /\ calls[c].waits = LinearWaits(4))
    /\ [][\A c \in Calls :
            (calls[c].pc = "connect" /\ calls[c].attempt = 5
             /\ calls'[c].pc \notin {"connect", "find"})
            => /\ calls'[c].pc = "done" /\ ConnectionFailed(c)'
               /\ calls'[c].waits = calls[c].waits]_vars

\* The fifth attempt was refused after waits of 1, 2, 3 and 4 units: the call
\* has ended without a fifth wait.
C18_Witness ==
    \E c \in Calls :
        /\ Done(c) /\ calls[c].thrown = <<"ECONNREFUSED">>
        /\ calls[c].attempt = 5
        /\ Len(calls[c].waits) = 4
        /\ calls[c].waits[4] = 4000

\* C19 as claimed: every result that is not a failure result carries a key
\* that is an element of the list the call resolved, whatever the backend and
\* whatever its store holds, an index left from a longer list included.
C19_ServedKeyIsCandidate ==
    \A c \in Calls :
        Succeeded(c)
        => \E i \in 1..N(c) : calls[c].result.key = calls[c].envKeys[i]

\* C20: a call that returns a failure result (no candidate, credentials
\* missing, connection failed, findOne, insertOne, updateOne or writeFile
\* failed) has not moved any cursor, a missing record read as 0: the only
\* step that changes a cursor value is the one that ends a call of that
\* cursor with a success result, and after a failed call that had read its
\* cursor (not the 0 taken for a file it could not read) the store still
\* holds the value read.
CursorValue(storage, p) ==
    IF StoredCursor(storage, p) = JsUndef THEN Num(0) ELSE StoredCursor(storage, p)

C20_FailureKeepsCursor ==
    /\ [][\A s \in Storages, p \in Prefixes :
            CursorValue(s, p)' # CursorValue(s, p)
            => \E c \in Calls :
                  /\ calls'[c] # calls[c]
                  /\ calls'[c].pc = "done" /\ ~IsFailure(calls'[c].result)
                  /\ CursorOf(calls'[c]) = <<s, p>>]_vars
    /\ [](\A c \in Calls :
            (/\ Failed(calls[c]) /\ calls[c].read # JsUndef
             /\ calls[c].seen # "unreadable")
            => CursorValue(calls[c].storage, calls[c].baseEnvName) = calls[c].read)

\* updateOne failed after insertOne had created the document: the failure
\* result is returned and the cursor, absent before, reads 0 as before.
C20_Witness ==
    \E c \in Calls :
        /\ Failed(calls[c]) /\ calls[c].thrown = <<DbError>>
        /\ calls[c].ops = <<"findOne", "insertOne", "updateOne">>
        /\ calls[c].read = Num(0)
        /\ collection = <<[name |-> DocName(<<"A">>), index |-> Num(0)]>>

====
